---- MODULE Spec2Model ----
(***************************************************************************)
(* Hybrid answer pipeline of the Argo float chat assistant                 *)
(* (src/llm_chat.py, served by the /chat route of src/app.py).             *)
(*                                                                         *)
(* Text is a sequence of strings.  A question is a sequence of one-        *)
(* character strings, so that the regular expression and the keyword       *)
(* search of extract_entities work on characters; fact sentences,          *)
(* document texts and the prompt are sequences whose elements are either   *)
(* characters or the literal pieces of the f-strings that build them.      *)
(***************************************************************************)
EXTENDS Integers, Sequences, FiniteSets, TLC

\* ------------------------------------------------------------------ bounds
MaxTurns == 2        \* requests handled in one run of the pipeline
MaxUpdates == 6      \* update_context calls in one run of the context alone

\* --------------------------------------------------------------- text basics
None == <<"None">>   \* Python None: no text is equal to it

Digits == {"0", "1", "2", "3", "4", "5", "6", "7", "8", "9"}

LowerLetters == {"a", "b", "c", "d", "e", "f", "g", "h", "i", "j", "k", "l", "m",
                 "n", "o", "p", "q", "r", "s", "t", "u", "v", "w", "x", "y", "z"}

UpperLetters == {"A", "B", "C", "D", "E", "F", "G", "H", "I", "J", "K", "L", "M",
                 "N", "O", "P", "Q", "R", "S", "T", "U", "V", "W", "X", "Y", "Z"}

Whitespace == {" ", "\n", "\t"}

\* \d and \w of the re module, on ASCII text
IsDigit(c) == c \in Digits

IsWord(c) == c \in Digits \cup LowerLetters \cup UpperLetters \cup {"_"}

\* str.lower() on one character
LowerChar(c) ==
    CASE c = "A" -> "a" [] c = "B" -> "b" [] c = "C" -> "c" [] c = "D" -> "d"
      [] c = "E" -> "e" [] c = "F" -> "f" [] c = "G" -> "g" [] c = "H" -> "h"
      [] c = "I" -> "i" [] c = "J" -> "j" [] c = "K" -> "k" [] c = "L" -> "l"
      [] c = "M" -> "m" [] c = "N" -> "n" [] c = "O" -> "o" [] c = "P" -> "p"
      [] c = "Q" -> "q" [] c = "R" -> "r" [] c = "S" -> "s" [] c = "T" -> "t"
      [] c = "U" -> "u" [] c = "V" -> "v" [] c = "W" -> "w" [] c = "X" -> "x"
      [] c = "Y" -> "y" [] c = "Z" -> "z" [] OTHER -> c

Lower(text) == [i \in 1..Len(text) |-> LowerChar(text[i])]

\* the `in` operator on strings: sub occurs in text as a contiguous piece
Contains(sub, text) ==
    \E i \in 1..(Len(text) - Len(sub) + 1) :
        \A j \in 1..Len(sub) : text[i + j - 1] = sub[j]

\* str.strip(): drop leading and trailing whitespace
Strip(text) ==
    LET keep == {i \in 1..Len(text) : text[i] \notin Whitespace}
    IN  IF keep = {} THEN << >>
        ELSE LET lo == CHOOSE i \in keep : \A j \in keep : i <= j
                 hi == CHOOSE i \in keep : \A j \in keep : j <= i
             IN  SubSeq(text, lo, hi)

\* "\n".join(parts)
RECURSIVE JoinLines(_)
JoinLines(parts) ==
    IF parts = << >> THEN << >>
    ELSE IF Len(parts) = 1 THEN parts[1]
    ELSE parts[1] \o <<"\n">> \o JoinLines(Tail(parts))

\* ", ".join(parts)
RECURSIVE JoinComma(_)
JoinComma(parts) ==
    IF parts = << >> THEN << >>
    ELSE IF Len(parts) = 1 THEN parts[1]
    ELSE parts[1] \o <<", ">> \o JoinComma(Tail(parts))

Range(s) == {s[i] : i \in 1..Len(s)}

\* ---------------------------------------------------------- entity extractor
FloatIdLen == 7

FloatMatches_no_boundary(text) ==
    {i \in 1..(Len(text) - FloatIdLen + 1) :
        \A j \in i..(i + FloatIdLen - 1) : IsDigit(text[j])}

\* positions where r"\b(\d{7})\b" matches
FloatMatches(text) ==
    {i \in 1..(Len(text) - FloatIdLen + 1) :
        /\ \A j \in i..(i + FloatIdLen - 1) : IsDigit(text[j])
        /\ (i = 1 \/ ~IsWord(text[i - 1]))
        /\ (i + FloatIdLen - 1 = Len(text) \/ ~IsWord(text[i + FloatIdLen]))}

region_keywords ==
    << <<"a", "r", "c", "t", "i", "c">>,
       <<"p", "a", "c", "i", "f", "i", "c">>,
       <<"a", "t", "l", "a", "n", "t", "i", "c">>,
       <<"i", "n", "d", "i", "a", "n">>,
       <<"s", "o", "u", "t", "h", "e", "r", "n">>,
       <<"m", "e", "d", "i", "t", "e", "r", "r", "a", "n", "e", "a", "n">>,
       <<"a", "r", "a", "b", "i", "a", "n">> >>

param_keywords ==
    << <<"t", "e", "m", "p", "e", "r", "a", "t", "u", "r", "e">>,
       <<"s", "a", "l", "i", "n", "i", "t", "y">>,
       <<"p", "r", "e", "s", "s", "u", "r", "e">>,
       <<"d", "e", "p", "t", "h">>,
       <<"o", "x", "y", "g", "e", "n">>,
       <<"c", "h", "l", "o", "r", "o", "p", "h", "y", "l", "l">>,
       <<"p", "h">> >>

\* indices of the keywords of the list that occur in the lowered text
KeywordHits(keywords, text) ==
    LET low == Lower(text)
    IN  {i \in 1..Len(keywords) : Contains(keywords[i], low)}

Min(S) == CHOOSE x \in S : \A y \in S : x <= y

extract_entities_leftmost(text) ==
    LET low == Lower(text)
        at(kw) == Min({p \in 1..Len(low) :
                        /\ p + Len(kw) - 1 <= Len(low)
                        /\ SubSeq(low, p, p + Len(kw) - 1) = kw})
        leftmost(keywords) ==
            LET hits == KeywordHits(keywords, text)
            IN  CHOOSE i \in hits : \A j \in hits :
                    \/ at(keywords[i]) < at(keywords[j])
                    \/ (at(keywords[i]) = at(keywords[j]) /\ i <= j)
        fm == FloatMatches(text)
        rh == KeywordHits(region_keywords, text)
        ph == KeywordHits(param_keywords, text)
        keys == (IF fm # {} THEN {"float_id"} ELSE {})
                \cup (IF rh # {} THEN {"region"} ELSE {})
                \cup (IF ph # {} THEN {"parameter"} ELSE {})
    IN  [k \in keys |->
            CASE k = "float_id" -> SubSeq(text, Min(fm), Min(fm) + FloatIdLen - 1)
              [] k = "region" -> region_keywords[leftmost(region_keywords)]
              [] k = "parameter" -> param_keywords[leftmost(param_keywords)]]

\* the dict returned by extract_entities: a function whose domain is the set
\* of keys that were set
extract_entities(text) ==
    LET fm == FloatMatches(text)
        rh == KeywordHits(region_keywords, text)
        ph == KeywordHits(param_keywords, text)
        keys == (IF fm # {} THEN {"float_id"} ELSE {})
                \cup (IF rh # {} THEN {"region"} ELSE {})
                \cup (IF ph # {} THEN {"parameter"} ELSE {})
    IN  [k \in keys |->
            CASE k = "float_id" -> SubSeq(text, Min(fm), Min(fm) + FloatIdLen - 1)
              [] k = "region" -> region_keywords[Min(rh)]
              [] k = "parameter" -> param_keywords[Min(ph)]]

\* ----------------------------------------------------------- relational store
\* floats: the rows of the floats table, each reduced to its platform_number;
\* cycles: the rows of the cycles table.  Latitude and longitude are whole
\* degrees; NULL stands for a missing (SQL NULL) coordinate.
NULL == -1000

F1 == <<"1", "9", "0", "1", "3", "9", "3">>

F2 == <<"2", "9", "0", "2", "1", "1", "5">>

CycleRow(p, n, lat, lon, d) ==
    [platform_number |-> p, cycle_number |-> n, latitude |-> lat,
     longitude |-> lon, date |-> d]

StoreEmpty == [floats |-> << >>, cycles |-> << >>]

\* F1 is listed twice and has two cycles, the later one outside the Arabian
\* box; F2 has no cycle
StoreA ==
    [floats |-> <<F1, F2, F1>>,
     cycles |-> << CycleRow(F1, 1, 10, 60, <<"2020-01-05">>),
                   CycleRow(F1, 2, 30, 60, <<"2020-01-15">>) >>]

\* F2 has a cycle without position, on the edge of the box in longitude
StoreB ==
    [floats |-> <<F2>>,
     cycles |-> << CycleRow(F2, 3, NULL, 78, <<"2021-03-01">>) >>]

Stores == {StoreEmpty, StoreA, StoreB}

\* a larger table for the fact resolver alone: six floats inside the Arabian
\* box, two of them on its corners, and two floats just outside it
FloatNo(d) == <<"3", "0", "0", "0", "0", "0", d>>

StoreC ==
    [floats |-> <<F1, FloatNo("1"), FloatNo("2"), FloatNo("3"), FloatNo("4"),
                  FloatNo("5"), FloatNo("6"), FloatNo("7"), FloatNo("8")>>,
     cycles |-> << CycleRow(F1, 7, 40, 60, <<"2022-05-01">>),
                   CycleRow(FloatNo("1"), 1, 5, 45, <<"2022-05-02">>),
                   CycleRow(FloatNo("2"), 1, 25, 78, <<"2022-05-03">>),
                   CycleRow(FloatNo("3"), 1, 10, 60, <<"2022-05-04">>),
                   CycleRow(FloatNo("3"), 2, 11, 61, <<"2022-05-14">>),
                   CycleRow(FloatNo("4"), 1, 15, 70, <<"2022-05-05">>),
                   CycleRow(FloatNo("5"), 1, 20, 50, <<"2022-05-06">>),
                   CycleRow(FloatNo("6"), 1, 12, 65, <<"2022-05-07">>),
                   CycleRow(FloatNo("7"), 1, 10, 79, <<"2022-05-08">>),
                   CycleRow(FloatNo("8"), 1, 26, 60, <<"2022-05-09">>) >>]

FactStores == Stores \cup {StoreC}

\* SELECT COUNT(DISTINCT platform_number) FROM floats
DistinctFloatCount_rows(st) == Len(st.floats)

DistinctFloatCount(st) == Cardinality(Range(st.floats))

FloatRowCount_cycles(st, fid) ==
    Cardinality({i \in 1..Len(st.cycles) : st.cycles[i].platform_number = fid})

\* SELECT COUNT(*) FROM floats WHERE platform_number = ?
FloatRowCount(st, fid) == Cardinality({i \in 1..Len(st.floats) : st.floats[i] = fid})

\* ... FROM cycles WHERE platform_number = ? ORDER BY cycle_number DESC LIMIT 1
\* fetchone(): the empty tuple for no row, else one of the rows with the
\* highest cycle number
LastCycleChoices(st, fid) ==
    LET rows == {i \in 1..Len(st.cycles) : st.cycles[i].platform_number = fid}
        top == {i \in rows : \A j \in rows :
                    st.cycles[j].cycle_number <= st.cycles[i].cycle_number}
    IN  IF rows = {} THEN {<< >>} ELSE {<<st.cycles[i]>> : i \in top}

LatMin == 5
LatMax == 25
LonMin == 45
LonMax == 78
RegionLimit == 5

ArabianFloats_lat_only(st) ==
    {p \in Range(st.floats) :
        \E i \in 1..Len(st.cycles) :
            /\ st.cycles[i].platform_number = p
            /\ st.cycles[i].latitude # NULL
            /\ LatMin <= st.cycles[i].latitude /\ st.cycles[i].latitude <= LatMax}

\* the floats joined to a cycle inside the box
ArabianFloats(st) ==
    {p \in Range(st.floats) :
        \E i \in 1..Len(st.cycles) :
            /\ st.cycles[i].platform_number = p
            /\ st.cycles[i].latitude # NULL
            /\ st.cycles[i].longitude # NULL
            /\ LatMin <= st.cycles[i].latitude /\ st.cycles[i].latitude <= LatMax
            /\ LonMin <= st.cycles[i].longitude /\ st.cycles[i].longitude <= LonMax}

\* SELECT DISTINCT ... LIMIT 5 without ORDER BY: any RegionLimit of the
\* matching floats, in any order
RegionChoices(st) ==
    LET m == ArabianFloats(st)
        k == IF Cardinality(m) < RegionLimit THEN Cardinality(m) ELSE RegionLimit
    IN  {s \in [1..k -> m] : \A i, j \in 1..k : s[i] = s[j] => i = j}

\* ----------------------------------------------------------------- fact text
\* format(x, ".2f") of a whole number of degrees
Fmt2(x) == ToString(x) \o ".00"

CountFact(n) == <<"Database contains ", ToString(n), " unique floats.">>

ExistsFact(fid) == <<"Float ">> \o fid \o <<" exists in the database.">>

LastCycleFact(loc) ==
    <<"Last cycle ", ToString(loc.cycle_number), " at ", Fmt2(loc.latitude),
      "°N, ", Fmt2(loc.longitude), "°E on ">> \o loc.date \o <<".">>

NoCycleFact(fid) == <<"No cycle records found for float ">> \o fid \o <<".">>

NotFoundFact(fid) == <<"Float ">> \o fid \o <<" not found in database.">>

RegionFact(ids) == <<"Sample floats in Arabian Sea: ">> \o JoinComma(ids) \o <<".">>

ErrorFact(e) == <<"DATABASE ERROR: ">> \o e

arabian == <<"a", "r", "a", "b", "i", "a", "n">>

\* the statements of query_db_facts that can raise inside its try block
DbFaults == {"none", "count", "exists", "cycle", "region"}

DbException == <<"IOException()">>

FormatTypeError == <<"TypeError('unsupported format string passed to NoneType.__format__')">>

\* The try block of query_db_facts, statement by statement.  fault names the
\* execute() call the store fails, loc is what the last-cycle query returns
\* and res what the region query returns.  Result: the facts appended so far
\* and the exception raised, if any.
Raise(s, e, at) == [s EXCEPT !.raised = TRUE, !.e = e, !.at = at]

FactsCount(st, fault) ==
    LET s0 == [facts |-> << >>, raised |-> FALSE, e |-> << >>, at |-> "none"]
    IN  IF fault = "count" THEN Raise(s0, DbException, "count")
        ELSE [s0 EXCEPT !.facts = Append(@, CountFact(DistinctFloatCount(st)))]

FactsFloat(st, entities, fault, loc, s) ==
    IF s.raised \/ "float_id" \notin DOMAIN entities THEN s
    ELSE LET fid == entities["float_id"]
         IN  IF fault = "exists" THEN Raise(s, DbException, "exists")
             ELSE IF FloatRowCount(st, fid) > 0
             THEN LET s1 == [s EXCEPT !.facts = Append(@, ExistsFact(fid))]
                  IN  IF fault = "cycle" THEN Raise(s1, DbException, "cycle")
                      ELSE IF loc # << >>
                      THEN IF loc[1].latitude = NULL \/ loc[1].longitude = NULL
                           THEN Raise(s1, FormatTypeError, "format")
                           ELSE [s1 EXCEPT !.facts = Append(@, LastCycleFact(loc[1]))]
                      ELSE [s1 EXCEPT !.facts = Append(@, NoCycleFact(fid))]
             ELSE [s EXCEPT !.facts = Append(@, NotFoundFact(fid))]

FactsRegion(entities, fault, res, s) ==
    IF s.raised THEN s
    ELSE IF "region" \in DOMAIN entities /\ entities["region"] = arabian
    THEN IF fault = "region" THEN Raise(s, DbException, "region")
         ELSE IF res # << >> THEN [s EXCEPT !.facts = Append(@, RegionFact(res))]
         ELSE s
    ELSE s

TryBlock(st, entities, fault, loc, res) ==
    FactsRegion(entities, fault, res,
        FactsFloat(st, entities, fault, loc, FactsCount(st, fault)))

query_db_facts_error_only(st, entities, fault, loc, res) ==
    LET s == TryBlock(st, entities, fault, loc, res)
        facts == IF s.raised THEN <<ErrorFact(s.e)>> ELSE s.facts
    IN  JoinLines(facts)

\* query_db_facts once the connection is open: try / except / return
query_db_facts(st, entities, fault, loc, res) ==
    LET s == TryBlock(st, entities, fault, loc, res)
        facts == IF s.raised THEN Append(s.facts, ErrorFact(s.e)) ELSE s.facts
    IN  JoinLines(facts)

\* ------------------------------------------------------- index and memory
\* the text build_vector_db embeds for one cycle row, and its metadata
CycleSummary(row) ==
    <<"Float ">> \o row.platform_number
        \o <<" | Cycle ", ToString(row.cycle_number), " | Date: ">> \o row.date
        \o <<" | Location: (", ToString(row.latitude), ", ",
             ToString(row.longitude), ")">>

IndexDocs(st) ==
    [i \in 1..Len(st.cycles) |->
        [page_content |-> CycleSummary(st.cycles[i]), metadata |-> st.cycles[i]]]

RetrieverK == 5
MemoryK == 2

\* a similarity search over a collection returns its k nearest entries,
\* nearest first; the ranking is the embedding's and is left open
TopK(coll, k) ==
    LET n == IF Len(coll) < k THEN Len(coll) ELSE k
    IN  {[i \in 1..n |-> coll[ix[i]]] :
            ix \in {f \in [1..n -> 1..Len(coll)] : \A i, j \in 1..n : f[i] = f[j] => i = j}}

MemoryEntry_question_text(ans, q) == [page_content |-> q, metadata |-> [question |-> ans]]

\* the entry memory_store.add_texts([answer], metadatas=[{"question": q}]) stores
MemoryEntry(ans, q) == [page_content |-> ans, metadata |-> [question |-> q]]

\* ------------------------------------------------------------ session context
RecentLimit == 5

EmptyContext ==
    [current_float_id |-> None, current_region |-> None,
     current_parameter |-> None, recent_queries |-> << >>]

EntityKeys == {"float_id", "region", "parameter"}

\* f"current_{k}"
CurrentKey(k) == "current_" \o k

\* update_context(question) on the context ctx
update_context_keep_all(ctx, q) ==
    LET entities == extract_entities(q)
        c1 == [f \in DOMAIN ctx |->
                 IF \E k \in DOMAIN entities : CurrentKey(k) = f
                 THEN entities[CHOOSE k \in DOMAIN entities : CurrentKey(k) = f]
                 ELSE ctx[f]]
    IN  [c1 EXCEPT !.recent_queries = Append(@, q)]

update_context_pop_last(ctx, q) ==
    LET c2 == update_context_keep_all(ctx, q)
    IN  IF Len(c2.recent_queries) > RecentLimit
        THEN [c2 EXCEPT !.recent_queries = SubSeq(@, 1, Len(@) - 1)]
        ELSE c2

update_context_reset(ctx, q) ==
    LET entities == extract_entities(q)
        c1 == [f \in DOMAIN ctx |->
                 IF f = "recent_queries" THEN ctx[f]
                 ELSE IF \E k \in DOMAIN entities : CurrentKey(k) = f
                 THEN entities[CHOOSE k \in DOMAIN entities : CurrentKey(k) = f]
                 ELSE None]
        c2 == [c1 EXCEPT !.recent_queries = Append(@, q)]
    IN  IF Len(c2.recent_queries) > RecentLimit
        THEN [c2 EXCEPT !.recent_queries = Tail(@)]
        ELSE c2

update_context_first_wins(ctx, q) ==
    LET entities == extract_entities(q)
        c1 == [f \in DOMAIN ctx |->
                 IF ctx[f] = None /\ \E k \in DOMAIN entities : CurrentKey(k) = f
                 THEN entities[CHOOSE k \in DOMAIN entities : CurrentKey(k) = f]
                 ELSE ctx[f]]
        c2 == [c1 EXCEPT !.recent_queries = Append(@, q)]
    IN  IF Len(c2.recent_queries) > RecentLimit
        THEN [c2 EXCEPT !.recent_queries = Tail(@)]
        ELSE c2

update_context(ctx, q) ==
    LET entities == extract_entities(q)
        c1 == [f \in DOMAIN ctx |->
                 IF \E k \in DOMAIN entities : CurrentKey(k) = f
                 THEN entities[CHOOSE k \in DOMAIN entities : CurrentKey(k) = f]
                 ELSE ctx[f]]
        c2 == [c1 EXCEPT !.recent_queries = Append(@, q)]
    IN  IF Len(c2.recent_queries) > RecentLimit
        THEN [c2 EXCEPT !.recent_queries = Tail(@)]
        ELSE c2

\* --------------------------------------------------------------------- prompt
system_template ==
    "You are an expert oceanographer ... Maintain continuity using the ACTIVE CONTEXT (float ID, region, parameter). ..."

PromptText_memory_first(q, facts, ds) ==
    LET mem == SelectSeq(ds, LAMBDA d : "question" \in DOMAIN d.metadata)
        idx == SelectSeq(ds, LAMBDA d : "question" \notin DOMAIN d.metadata)
        ordered == mem \o idx
        doc_context == IF ds # << >>
                       THEN JoinLines([i \in 1..Len(ordered) |-> ordered[i].page_content])
                       ELSE <<"No retrieved docs.">>
        full_context == <<"=== DATABASE FACTS ===\n">> \o facts
                            \o <<"\n\n=== RETRIEVED DOCS ===\n">> \o doc_context
    IN  <<"System: ", system_template, "\nHuman: ">> \o full_context
            \o <<"\n\nQuestion: ">> \o q

\* the text ask_llm sends to the model
PromptText(q, facts, ds) ==
    LET doc_context == IF ds # << >>
                       THEN JoinLines([i \in 1..Len(ds) |-> ds[i].page_content])
                       ELSE <<"No retrieved docs.">>
        full_context == <<"=== DATABASE FACTS ===\n">> \o facts
                            \o <<"\n\n=== RETRIEVED DOCS ===\n">> \o doc_context
    IN  <<"System: ", system_template, "\nHuman: ">> \o full_context
            \o <<"\n\nQuestion: ">> \o q

\* -------------------------------------------------------------------- inputs
Q1 == <<"f", "l", "o", "a", "t", " ">> \o F1                    \* "float 1901393"

Q2 == <<"W", "h", "a", "t", " ", "a", "b", "o", "u", "t", " ", "i", "t", "?">>

Q3 == <<"A", "r", "a", "b", "i", "a", "n", " ", "p", "H", " ">> \o F2   \* "Arabian pH 2902115"

Q4 == <<"I", "n", "d", "i", "a", "n", " ", "d", "e", "p", "t", "h">>   \* "Indian depth"

Questions == {Q1, Q2, Q3, Q4}

\* the JSON bodies posted to /chat
Requests ==
    {[kind |-> "no_json", message |-> << >>],
     [kind |-> "no_message", message |-> << >>],
     [kind |-> "not_str", message |-> << >>],
     [kind |-> "text", message |-> <<" ", "\n">>],
     [kind |-> "text", message |-> Q1],
     [kind |-> "text", message |-> <<" ">> \o Q2],
     [kind |-> "text", message |-> Q3 \o <<"\n">>]}

\* what response.text of the model can be
LLMTexts == {<<"o", "k", "\n">>, <<" ">> \o F1 \o <<".">>}

LLMException == <<"ResourceExhausted()">>

ConnectException == <<"IOException('Could not set lock on file')">>

StripException == <<"AttributeError('strip')">>

\* --------------------------------------------------------------------- state
NThreads == 2

Threads == 1..NThreads

\* the one request thread of a server that handles its requests one by one
SerialThreads == {1}

VARIABLES
    store,            \* the DuckDB tables
    vectordb,         \* the documents of the Semantic Index
    memory_store,     \* the entries of the Conversational Memory, in append order
    session_context,  \* the module-level dict of llm_chat
    conns,            \* number of open store connections
    pc,               \* per thread: where its request stands
    question,         \* per thread: user_message / question
    ents,             \* per thread: ents of hybrid_answer
    db_facts,         \* per thread
    docs,             \* per thread
    prompt,           \* per thread: prompt_text of ask_llm
    answer,           \* per thread
    exc,              \* per thread: the exception in flight, << >> for none
    result,           \* per thread: the HTTP result of /chat
    turns,            \* requests received so far
    answered,         \* history: the questions update_context was called with
    pre,              \* history, per thread: context and memory when the request came in
    faults            \* history, per thread: what failed during the request

vars == <<store, vectordb, memory_store, session_context, conns, pc, question,
          ents, db_facts, docs, prompt, answer, exc, result, turns, answered,
          pre, faults>>

shared == <<store, vectordb, memory_store, session_context, conns>>

\* memory_chroma is a persistent directory: what earlier runs of the process
\* left in it is there when the module is loaded
MemoriesOnDisk ==
    {<< >>,
     <<MemoryEntry(<<"o", "k">>, Q2), MemoryEntry(F1 \o <<".">>, Q1)>>}

NoEntities == [k \in {} |-> << >>]

NoResult == [status_code |-> 0, body |-> [k \in {} |-> << >>]]

\* the state once llm_chat is imported, for the tables st and the memory
\* entries mem found on disk
InitWith(st, mem) ==
    /\ store = st
    /\ vectordb = IndexDocs(st)
    /\ memory_store = mem
    /\ session_context = EmptyContext
    /\ conns = 0
    /\ pc = [t \in Threads |-> "idle"]
    /\ question = [t \in Threads |-> None]
    /\ ents = [t \in Threads |-> NoEntities]
    /\ db_facts = [t \in Threads |-> None]
    /\ docs = [t \in Threads |-> << >>]
    /\ prompt = [t \in Threads |-> None]
    /\ answer = [t \in Threads |-> None]
    /\ exc = [t \in Threads |-> << >>]
    /\ result = [t \in Threads |-> NoResult]
    /\ turns = 0
    /\ answered = << >>
    /\ pre = [t \in Threads |-> [ctx |-> EmptyContext, mem |-> mem]]
    /\ faults = [t \in Threads |-> {}]

Init == \E st \in Stores : \E mem \in MemoriesOnDisk : InitWith(st, mem)

\* jsonify({...}), status
ErrorResult(code, msg) ==
    [status_code |-> code, body |-> [error |-> msg]]

ServerErrorResult(e) ==
    [status_code |-> 500,
     body |-> [error |-> <<"Internal server error: ">> \o e, status |-> <<"error">>]]

SuccessResult(text) ==
    [status_code |-> 200, body |-> [response |-> text, status |-> <<"success">>]]

\* ------------------------------------------------------------- /chat handler
\* chat(): read the body, validate it, strip the message
chat_receive(t, req) ==
    /\ pc[t] \in {"idle", "done"}
    /\ turns < MaxTurns
    /\ turns' = turns + 1
    /\ pre' = [pre EXCEPT ![t] = [ctx |-> session_context, mem |-> memory_store]]
    /\ ents' = [ents EXCEPT ![t] = NoEntities]
    /\ db_facts' = [db_facts EXCEPT ![t] = None]
    /\ docs' = [docs EXCEPT ![t] = << >>]
    /\ prompt' = [prompt EXCEPT ![t] = None]
    /\ answer' = [answer EXCEPT ![t] = None]
    /\ IF req.kind \in {"no_json", "no_message"}
       THEN /\ result' = [result EXCEPT ![t] = ErrorResult(400, <<"No message provided">>)]
            /\ pc' = [pc EXCEPT ![t] = "done"]
            /\ question' = [question EXCEPT ![t] = None]
            /\ exc' = [exc EXCEPT ![t] = << >>]
            /\ faults' = [faults EXCEPT ![t] = {"input"}]
       ELSE IF req.kind = "not_str"
       THEN /\ result' = [result EXCEPT ![t] = NoResult]
            /\ pc' = [pc EXCEPT ![t] = "except"]
            /\ question' = [question EXCEPT ![t] = None]
            /\ exc' = [exc EXCEPT ![t] = StripException]
            /\ faults' = [faults EXCEPT ![t] = {"input"}]
       ELSE IF Strip(req.message) = << >>
       THEN /\ result' = [result EXCEPT ![t] = ErrorResult(400, <<"Empty message">>)]
            /\ pc' = [pc EXCEPT ![t] = "done"]
            /\ question' = [question EXCEPT ![t] = << >>]
            /\ exc' = [exc EXCEPT ![t] = << >>]
            /\ faults' = [faults EXCEPT ![t] = {"input"}]
       ELSE /\ result' = [result EXCEPT ![t] = NoResult]
            /\ pc' = [pc EXCEPT ![t] = "extract"]
            /\ question' = [question EXCEPT ![t] = Strip(req.message)]
            /\ exc' = [exc EXCEPT ![t] = << >>]
            /\ faults' = [faults EXCEPT ![t] = {}]
    /\ UNCHANGED <<shared, answered>>

hybrid_extract_sets_context(t) ==
    /\ pc[t] = "extract"
    /\ ents' = [ents EXCEPT ![t] = extract_entities(question[t])]
    /\ session_context' = update_context(session_context, question[t])
    /\ pc' = [pc EXCEPT ![t] = "connect"]
    /\ UNCHANGED <<store, vectordb, memory_store, conns, question, db_facts, docs,
                   prompt, answer, exc, result, turns, answered, pre, faults>>

\* hybrid_answer: ents = extract_entities(question)
hybrid_extract(t) ==
    /\ pc[t] = "extract"
    /\ ents' = [ents EXCEPT ![t] = extract_entities(question[t])]
    /\ pc' = [pc EXCEPT ![t] = "connect"]
    /\ UNCHANGED <<shared, question, db_facts, docs, prompt, answer, exc, result,
                   turns, answered, pre, faults>>

\* query_db_facts: con = get_db_connection(), before the try block
db_connect(t) ==
    /\ pc[t] = "connect"
    /\ \/ /\ conns' = conns + 1
          /\ pc' = [pc EXCEPT ![t] = "query"]
          /\ UNCHANGED <<exc, faults>>
       \/ /\ exc' = [exc EXCEPT ![t] = ConnectException]
          /\ faults' = [faults EXCEPT ![t] = @ \cup {"db_connect"}]
          /\ pc' = [pc EXCEPT ![t] = "except"]
          /\ UNCHANGED conns
    /\ UNCHANGED <<store, vectordb, memory_store, session_context, question, ents,
                   db_facts, docs, prompt, answer, result, turns, answered, pre>>

db_query_leaks_on_error(t) ==
    /\ pc[t] = "query"
    /\ \E fault \in DbFaults :
         \E loc \in (IF "float_id" \in DOMAIN ents[t]
                     THEN LastCycleChoices(store, ents[t]["float_id"]) ELSE {<< >>}) :
           \E res \in RegionChoices(store) :
             LET s == TryBlock(store, ents[t], fault, loc, res)
             IN  /\ db_facts' = [db_facts EXCEPT ![t] =
                                    query_db_facts(store, ents[t], fault, loc, res)]
                 /\ faults' = [faults EXCEPT ![t] =
                                  IF s.raised THEN @ \cup {"db_" \o s.at} ELSE @]
                 /\ conns' = IF s.raised THEN conns ELSE conns - 1
    /\ pc' = [pc EXCEPT ![t] = "retrieve_index"]
    /\ UNCHANGED <<store, vectordb, memory_store, session_context, question, ents,
                   docs, prompt, answer, exc, result, turns, answered, pre>>

\* query_db_facts: the try block, the except clause, con.close() and the return
db_query(t) ==
    /\ pc[t] = "query"
    /\ \E fault \in DbFaults :
         \E loc \in (IF "float_id" \in DOMAIN ents[t]
                     THEN LastCycleChoices(store, ents[t]["float_id"]) ELSE {<< >>}) :
           \E res \in RegionChoices(store) :
             LET s == TryBlock(store, ents[t], fault, loc, res)
             IN  /\ db_facts' = [db_facts EXCEPT ![t] =
                                    query_db_facts(store, ents[t], fault, loc, res)]
                 /\ faults' = [faults EXCEPT ![t] =
                                  IF s.raised THEN @ \cup {"db_" \o s.at} ELSE @]
    /\ conns' = conns - 1
    /\ pc' = [pc EXCEPT ![t] = "retrieve_index"]
    /\ UNCHANGED <<store, vectordb, memory_store, session_context, question, ents,
                   docs, prompt, answer, exc, result, turns, answered, pre>>

retrieve_index_global_docs(t) ==
    /\ pc[t] = "retrieve_index"
    /\ \/ /\ \E hits \in TopK(vectordb, RetrieverK) :
                docs' = [u \in Threads |-> docs[u] \o hits]
          /\ UNCHANGED faults
       \/ /\ faults' = [faults EXCEPT ![t] = @ \cup {"index"}]
          /\ UNCHANGED docs
    /\ pc' = [pc EXCEPT ![t] = "retrieve_memory"]
    /\ UNCHANGED <<shared, question, ents, db_facts, prompt, answer, exc, result,
                   turns, answered, pre>>

\* hybrid_answer: docs += retriever.get_relevant_documents(question), in try
retrieve_index(t) ==
    /\ pc[t] = "retrieve_index"
    /\ \/ /\ \E hits \in TopK(vectordb, RetrieverK) :
                docs' = [docs EXCEPT ![t] = @ \o hits]
          /\ UNCHANGED faults
       \/ /\ faults' = [faults EXCEPT ![t] = @ \cup {"index"}]
          /\ UNCHANGED docs
    /\ pc' = [pc EXCEPT ![t] = "retrieve_memory"]
    /\ UNCHANGED <<shared, question, ents, db_facts, prompt, answer, exc, result,
                   turns, answered, pre>>

\* hybrid_answer: docs += memory_store.similarity_search(question, k=2), in try
retrieve_memory_raises(t) ==
    /\ pc[t] = "retrieve_memory"
    /\ \/ /\ \E hits \in TopK(memory_store, MemoryK) :
                docs' = [docs EXCEPT ![t] = @ \o hits]
          /\ pc' = [pc EXCEPT ![t] = "ask_llm"]
          /\ UNCHANGED <<faults, exc>>
       \/ /\ faults' = [faults EXCEPT ![t] = @ \cup {"memory_search"}]
          /\ exc' = [exc EXCEPT ![t] = <<"ChromaError()">>]
          /\ pc' = [pc EXCEPT ![t] = "except"]
          /\ UNCHANGED docs
    /\ UNCHANGED <<shared, question, ents, db_facts, prompt, answer, result,
                   turns, answered, pre>>

retrieve_memory(t) ==
    /\ pc[t] = "retrieve_memory"
    /\ \/ /\ \E hits \in TopK(memory_store, MemoryK) :
                docs' = [docs EXCEPT ![t] = @ \o hits]
          /\ UNCHANGED faults
       \/ /\ faults' = [faults EXCEPT ![t] = @ \cup {"memory_search"}]
          /\ UNCHANGED docs
    /\ pc' = [pc EXCEPT ![t] = "ask_llm"]
    /\ UNCHANGED <<shared, question, ents, db_facts, prompt, answer, exc, result,
                   turns, answered, pre>>

\* hybrid_answer: answer = ask_llm(question, db_facts, docs)
ask_llm_commit_first(t) ==
    /\ pc[t] = "ask_llm"
    /\ prompt' = [prompt EXCEPT ![t] = PromptText(question[t], db_facts[t], docs[t])]
    /\ \/ /\ \E raw \in LLMTexts : answer' = [answer EXCEPT ![t] = Strip(raw)]
          /\ pc' = [pc EXCEPT ![t] = "update_context"]
          /\ UNCHANGED <<exc, faults, session_context, answered>>
       \/ /\ exc' = [exc EXCEPT ![t] = LLMException]
          /\ faults' = [faults EXCEPT ![t] = @ \cup {"llm"}]
          /\ pc' = [pc EXCEPT ![t] = "except"]
          /\ session_context' = update_context(session_context, question[t])
          /\ answered' = Append(answered, question[t])
          /\ UNCHANGED answer
    /\ UNCHANGED <<store, vectordb, memory_store, conns, question, ents, db_facts,
                   docs, result, turns, pre>>

ask_llm_retries(t) ==
    /\ pc[t] = "ask_llm"
    /\ prompt' = [prompt EXCEPT ![t] = PromptText(question[t], db_facts[t], docs[t])]
    /\ \/ /\ \E raw \in LLMTexts : answer' = [answer EXCEPT ![t] = Strip(raw)]
          /\ pc' = [pc EXCEPT ![t] = "update_context"]
          /\ UNCHANGED <<exc, faults>>
       \/ /\ exc' = [exc EXCEPT ![t] = LLMException]
          /\ faults' = [faults EXCEPT ![t] = @ \cup {"llm"}]
          /\ UNCHANGED <<answer, pc>>
    /\ UNCHANGED <<shared, question, ents, db_facts, docs, result, turns,
                   answered, pre>>

ask_llm(t) ==
    /\ pc[t] = "ask_llm"
    /\ prompt' = [prompt EXCEPT ![t] = PromptText(question[t], db_facts[t], docs[t])]
    /\ \/ /\ \E raw \in LLMTexts : answer' = [answer EXCEPT ![t] = Strip(raw)]
          /\ pc' = [pc EXCEPT ![t] = "update_context"]
          /\ UNCHANGED <<exc, faults>>
       \/ /\ exc' = [exc EXCEPT ![t] = LLMException]
          /\ faults' = [faults EXCEPT ![t] = @ \cup {"llm"}]
          /\ pc' = [pc EXCEPT ![t] = "except"]
          /\ UNCHANGED answer
    /\ UNCHANGED <<shared, question, ents, db_facts, docs, result, turns,
                   answered, pre>>

hybrid_update_context_isolated(t) ==
    /\ pc[t] = "update_context"
    /\ session_context' = IF t = 1 THEN update_context(session_context, question[t])
                          ELSE session_context
    /\ answered' = Append(answered, question[t])
    /\ db_facts' = [db_facts EXCEPT ![t] = None]
    /\ docs' = [docs EXCEPT ![t] = << >>]
    /\ prompt' = [prompt EXCEPT ![t] = None]
    /\ pc' = [pc EXCEPT ![t] = "memory_add"]
    /\ UNCHANGED <<store, vectordb, memory_store, conns, question, ents, answer,
                   exc, result, turns, pre, faults>>

\* hybrid_answer: update_context(question).  db_facts, docs and the prompt are
\* not read after ask_llm has returned; the model drops them here.
hybrid_update_context(t) ==
    /\ pc[t] = "update_context"
    /\ session_context' = update_context(session_context, question[t])
    /\ answered' = Append(answered, question[t])
    /\ db_facts' = [db_facts EXCEPT ![t] = None]
    /\ docs' = [docs EXCEPT ![t] = << >>]
    /\ prompt' = [prompt EXCEPT ![t] = None]
    /\ pc' = [pc EXCEPT ![t] = "memory_add"]
    /\ UNCHANGED <<store, vectordb, memory_store, conns, question, ents, answer,
                   exc, result, turns, pre, faults>>

\* hybrid_answer: memory_store.add_texts([answer], metadatas=[...]), in try
memory_add_raises(t) ==
    /\ pc[t] = "memory_add"
    /\ \/ /\ memory_store' = Append(memory_store, MemoryEntry(answer[t], question[t]))
          /\ pc' = [pc EXCEPT ![t] = "return"]
          /\ UNCHANGED <<faults, exc>>
       \/ /\ faults' = [faults EXCEPT ![t] = @ \cup {"memory_add"}]
          /\ exc' = [exc EXCEPT ![t] = <<"ChromaError()">>]
          /\ pc' = [pc EXCEPT ![t] = "except"]
          /\ UNCHANGED memory_store
    /\ UNCHANGED <<store, vectordb, session_context, conns, question, ents, db_facts,
                   docs, prompt, answer, result, turns, answered, pre>>

memory_add_overwrites(t) ==
    /\ pc[t] = "memory_add"
    /\ \/ /\ memory_store' = <<MemoryEntry(answer[t], question[t])>>
          /\ UNCHANGED faults
       \/ /\ faults' = [faults EXCEPT ![t] = @ \cup {"memory_add"}]
          /\ UNCHANGED memory_store
    /\ pc' = [pc EXCEPT ![t] = "return"]
    /\ UNCHANGED <<store, vectordb, session_context, conns, question, ents, db_facts,
                   docs, prompt, answer, exc, result, turns, answered, pre>>

\* variant: the answer is taken from whichever request wrote one last, as if
\* it were a module-level variable rather than a local of hybrid_answer
memory_add_shared_answer(t) ==
    /\ pc[t] = "memory_add"
    /\ \/ /\ \E u \in Threads :
                /\ answer[u] # None
                /\ memory_store' = Append(memory_store, MemoryEntry(answer[u], question[t]))
          /\ UNCHANGED faults
       \/ /\ faults' = [faults EXCEPT ![t] = @ \cup {"memory_add"}]
          /\ UNCHANGED memory_store
    /\ pc' = [pc EXCEPT ![t] = "return"]
    /\ UNCHANGED <<store, vectordb, session_context, conns, question, ents, db_facts,
                   docs, prompt, answer, exc, result, turns, answered, pre>>

memory_add(t) ==
    /\ pc[t] = "memory_add"
    /\ \/ /\ memory_store' = Append(memory_store, MemoryEntry(answer[t], question[t]))
          /\ UNCHANGED faults
       \/ /\ faults' = [faults EXCEPT ![t] = @ \cup {"memory_add"}]
          /\ UNCHANGED memory_store
    /\ pc' = [pc EXCEPT ![t] = "return"]
    /\ UNCHANGED <<store, vectordb, session_context, conns, question, ents, db_facts,
                   docs, prompt, answer, exc, result, turns, answered, pre>>

\* chat(): hybrid_answer returned, its locals are gone; jsonify the response
chat_respond(t) ==
    /\ pc[t] = "return"
    /\ result' = [result EXCEPT ![t] = SuccessResult(answer[t])]
    /\ ents' = [ents EXCEPT ![t] = NoEntities]
    /\ db_facts' = [db_facts EXCEPT ![t] = None]
    /\ docs' = [docs EXCEPT ![t] = << >>]
    /\ prompt' = [prompt EXCEPT ![t] = None]
    /\ pc' = [pc EXCEPT ![t] = "done"]
    /\ UNCHANGED <<shared, question, answer, exc, turns, answered, pre, faults>>

\* chat(): except Exception as e; the frames the exception left are gone
chat_except_as_answer(t) ==
    /\ pc[t] = "except"
    /\ result' = [result EXCEPT ![t] = SuccessResult(<<"Internal server error: ">> \o exc[t])]
    /\ ents' = [ents EXCEPT ![t] = NoEntities]
    /\ db_facts' = [db_facts EXCEPT ![t] = None]
    /\ docs' = [docs EXCEPT ![t] = << >>]
    /\ prompt' = [prompt EXCEPT ![t] = None]
    /\ pc' = [pc EXCEPT ![t] = "done"]
    /\ UNCHANGED <<shared, question, answer, exc, turns, answered, pre, faults>>

chat_except(t) ==
    /\ pc[t] = "except"
    /\ result' = [result EXCEPT ![t] = ServerErrorResult(exc[t])]
    /\ ents' = [ents EXCEPT ![t] = NoEntities]
    /\ db_facts' = [db_facts EXCEPT ![t] = None]
    /\ docs' = [docs EXCEPT ![t] = << >>]
    /\ prompt' = [prompt EXCEPT ![t] = None]
    /\ pc' = [pc EXCEPT ![t] = "done"]
    /\ UNCHANGED <<shared, question, answer, exc, turns, answered, pre, faults>>

\* ------------------------------------------------------------ specifications
\* the /chat server handling one request after the other
Next ==
    \E t \in SerialThreads :
        \/ \E req \in Requests : chat_receive(t, req)
        \/ hybrid_extract(t)
        \/ db_connect(t)
        \/ db_query(t)
        \/ retrieve_index(t)
        \/ retrieve_memory(t)
        \/ ask_llm(t)
        \/ hybrid_update_context(t)
        \/ memory_add(t)
        \/ chat_respond(t)
        \/ chat_except(t)

Spec == Init /\ [][Next]_vars

\* the session context alone, under a run of update_context calls
update_context_call(q) ==
    /\ Len(answered) < MaxUpdates
    /\ session_context' = update_context(session_context, q)
    /\ answered' = Append(answered, q)
    /\ UNCHANGED <<store, vectordb, memory_store, conns, pc, question, ents,
                   db_facts, docs, prompt, answer, exc, result, turns, pre, faults>>

NextCtx == \E q \in Questions : update_context_call(q)

\* no request is in progress and nothing is read from the store or the memory
InitCtx == InitWith(StoreEmpty, << >>)

SpecCtx == InitCtx /\ [][NextCtx]_vars

\* the /chat server over empty tables and an empty memory: what a run does to
\* the session context does not depend on either
SpecCarry == InitCtx /\ [][Next]_vars

\* ------------------------------------------------------------------ startup
\* the import of llm_chat: the module-level statements that build or load the
\* vector index run once, before any request is served
BuildTypeError ==
    <<"TypeError(\"build_vector_db() got an unexpected keyword argument 'embedding_model'\")">>

StartupStores == {StoreEmpty, StoreA}

\* the interpreter is about to evaluate os.path.exists(VECTOR_DB_PATH);
\* vectordb and retriever are not bound yet
InitStartup ==
    \E st \in StartupStores :
        /\ store = st
        /\ vectordb = << >>
        /\ memory_store = << >>
        /\ session_context = EmptyContext
        /\ conns = 0
        /\ pc = [t \in Threads |-> "startup"]
        /\ question = [t \in Threads |-> None]
        /\ ents = [t \in Threads |-> NoEntities]
        /\ db_facts = [t \in Threads |-> None]
        /\ docs = [t \in Threads |-> << >>]
        /\ prompt = [t \in Threads |-> None]
        /\ answer = [t \in Threads |-> None]
        /\ exc = [t \in Threads |-> << >>]
        /\ result = [t \in Threads |-> NoResult]
        /\ turns = 0
        /\ answered = << >>
        /\ pre = [t \in Threads |-> [ctx |-> EmptyContext, mem |-> << >>]]
        /\ faults = [t \in Threads |-> {}]

\* else branch, the directory exists: vectordb = Chroma(persist_directory=...),
\* retriever = vectordb.as_retriever(...); the rest of the module runs and the
\* server accepts requests
startup_load ==
    /\ \A t \in Threads : pc[t] = "startup"
    /\ vectordb' = IndexDocs(store)
    /\ pc' = [t \in Threads |-> "idle"]
    /\ UNCHANGED <<store, memory_store, session_context, conns, question, ents,
                   db_facts, docs, prompt, answer, exc, result, turns, answered,
                   pre, faults>>

\* if branch, the directory does not exist: build_vector_db is called with the
\* keyword embedding_model, which def build_vector_db() does not take; the
\* TypeError is raised before the body runs and ends the import
startup_build ==
    /\ \A t \in Threads : pc[t] = "startup"
    /\ exc' = [t \in Threads |-> BuildTypeError]
    /\ faults' = [t \in Threads |-> {"startup"}]
    /\ pc' = [t \in Threads |-> "crashed"]
    /\ UNCHANGED <<shared, question, ents, db_facts, docs, prompt, answer, result,
                   turns, answered, pre>>

\* whether the directory exists is the environment's choice
NextStartup ==
    \/ startup_load
    \/ startup_build
    \/ Next

SpecStartup == InitStartup /\ [][NextStartup]_vars

\* ------------------------------------------------------------- one turn
\* hybrid_answer(q) has just been entered by chat(), on the tables st and the
\* memory mem
InitTurnWith(st, mem, q) ==
    /\ store = st
    /\ vectordb = IndexDocs(st)
    /\ memory_store = mem
    /\ session_context = EmptyContext
    /\ conns = 0
    /\ pc = [t \in Threads |-> IF t = 1 THEN "extract" ELSE "idle"]
    /\ question = [t \in Threads |-> IF t = 1 THEN q ELSE None]
    /\ ents = [t \in Threads |-> NoEntities]
    /\ db_facts = [t \in Threads |-> None]
    /\ docs = [t \in Threads |-> << >>]
    /\ prompt = [t \in Threads |-> None]
    /\ answer = [t \in Threads |-> None]
    /\ exc = [t \in Threads |-> << >>]
    /\ result = [t \in Threads |-> NoResult]
    /\ turns = 1
    /\ answered = << >>
    /\ pre = [t \in Threads |-> [ctx |-> EmptyContext, mem |-> mem]]
    /\ faults = [t \in Threads |-> {}]

TurnStores == {StoreEmpty, StoreA}

TurnQuestions == {Q1, Q2}

InitTurn ==
    \E st \in TurnStores : \E mem \in MemoriesOnDisk : \E q \in TurnQuestions :
        InitTurnWith(st, mem, q)

NextTurn ==
    \/ hybrid_extract(1)
    \/ db_connect(1)
    \/ db_query(1)
    \/ retrieve_index(1)
    \/ retrieve_memory(1)
    \/ ask_llm(1)
    \/ hybrid_update_context(1)
    \/ memory_add(1)
    \/ chat_respond(1)
    \/ chat_except(1)

\* every call of the turn returns or raises: a step that can be taken is taken
SpecTurn == InitTurn /\ [][NextTurn]_vars /\ WF_vars(NextTurn)

\* -------------------------------------------------------- extractor alone
\* texts for extract_entities: two words and what stands between them.  The
\* words hold keywords in either case, keywords inside longer words, float
\* ids and digit runs that are too short or too long.
ExtractWords ==
    {<< >>, F1, F2,
     <<"A", "r", "a", "b", "i", "a", "n">>,
     <<"A", "R", "C", "T", "I", "C">>,
     <<"I", "n", "d", "i", "a", "n", "a">>,
     <<"p", "H">>,
     <<"t", "e", "m", "p", "e", "r", "a", "t", "u", "r", "e">>,
     <<"d", "e", "p", "t", "h", "s">>,
     <<"G", "r", "a", "p", "h">>,
     <<"1", "2", "3", "4", "5", "6", "7", "8">>,
     <<"1", "2", "3", "4", "5", "6">>,
     <<"_">>}

ExtractSeparators == {<< >>, <<" ">>, <<"-">>}

ExtractTexts ==
    {a \o sep \o b : a \in ExtractWords, sep \in ExtractSeparators, b \in ExtractWords}

\* thread 1 is about to call extract_entities(text)
InitExtractWith(text) == InitTurnWith(StoreEmpty, << >>, text)

InitExtract == \E text \in ExtractTexts : InitExtractWith(text)

NextExtract == hybrid_extract(1)

SpecExtract == InitExtract /\ [][NextExtract]_vars

\* ------------------------------------------------------- the command loop
\* what input() can return at the prompt of the __main__ loop
CliLines == {<< >>, Q1, Q2, <<"E", "x", "i", "t">>, <<"q", "u", "i", "t">>}

CliExitWords == {<<"e", "x", "i", "t">>, <<"q", "u", "i", "t">>}

EOFException == <<"EOFError()">>

\* q = input(...); if q.lower() in ["exit", "quit"]: break; hybrid_answer(q)
cli_read(line) ==
    /\ pc[1] \in {"idle", "done"}
    /\ turns < MaxTurns
    /\ turns' = turns + 1
    /\ pre' = [pre EXCEPT ![1] = [ctx |-> session_context, mem |-> memory_store]]
    /\ question' = [question EXCEPT ![1] = line]
    /\ answer' = [answer EXCEPT ![1] = None]
    /\ faults' = [faults EXCEPT ![1] = {}]
    /\ pc' = [pc EXCEPT ![1] = IF Lower(line) \in CliExitWords THEN "exited"
                                ELSE "extract"]
    /\ UNCHANGED <<shared, ents, db_facts, docs, prompt, exc, result, answered>>

\* input() at the end of standard input: EOFError leaves the loop and the program
cli_eof ==
    /\ pc[1] \in {"idle", "done"}
    /\ exc' = [exc EXCEPT ![1] = EOFException]
    /\ pc' = [pc EXCEPT ![1] = "crashed"]
    /\ UNCHANGED <<shared, question, ents, db_facts, docs, prompt, answer, result,
                   turns, answered, pre, faults>>

\* print(ans): hybrid_answer returned, its locals are gone
cli_print ==
    /\ pc[1] = "return"
    /\ ents' = [ents EXCEPT ![1] = NoEntities]
    /\ pc' = [pc EXCEPT ![1] = "done"]
    /\ UNCHANGED <<shared, question, db_facts, docs, prompt, answer, exc, result,
                   turns, answered, pre, faults>>

\* an exception leaving hybrid_answer is not caught by the loop: traceback, exit
cli_abort ==
    /\ pc[1] = "except"
    /\ ents' = [ents EXCEPT ![1] = NoEntities]
    /\ db_facts' = [db_facts EXCEPT ![1] = None]
    /\ docs' = [docs EXCEPT ![1] = << >>]
    /\ prompt' = [prompt EXCEPT ![1] = None]
    /\ pc' = [pc EXCEPT ![1] = "crashed"]
    /\ UNCHANGED <<shared, question, answer, exc, result, turns, answered, pre, faults>>

NextCli ==
    \/ \E line \in CliLines : cli_read(line)
    \/ cli_eof
    \/ hybrid_extract(1)
    \/ db_connect(1)
    \/ db_query(1)
    \/ retrieve_index(1)
    \/ retrieve_memory(1)
    \/ ask_llm(1)
    \/ hybrid_update_context(1)
    \/ memory_add(1)
    \/ cli_print
    \/ cli_abort

SpecCli == Init /\ [][NextCli]_vars

\* ------------------------------------------- two conversations, one server
\* two users talk to the same process; the server takes their requests one
\* at a time, in any order
Conversations == {1, 2}

ConversationRequests(c) ==
    IF c = 1 THEN {[kind |-> "text", message |-> Q2]}
    ELSE {[kind |-> "text", message |-> Q3]}

alt_receive(c, req) ==
    /\ \A u \in Threads \ {c} : pc[u] \in {"idle", "done"}
    /\ chat_receive(c, req)

NextAlt ==
    \E c \in Conversations :
        \/ \E req \in ConversationRequests(c) : alt_receive(c, req)
        \/ hybrid_extract(c)
        \/ db_connect(c)
        \/ db_query(c)
        \/ retrieve_index(c)
        \/ retrieve_memory(c)
        \/ ask_llm(c)
        \/ hybrid_update_context(c)
        \/ memory_add(c)
        \/ chat_respond(c)
        \/ chat_except(c)

\* no table rows and no memory on disk: the context is what the run is about
InitAlt == InitWith(StoreEmpty, << >>)

SpecAlt == InitAlt /\ [][NextAlt]_vars

\* ------------------------------- fact resolver and index search side by side
\* thread 1 is about to call query_db_facts and thread 2 the retriever, both
\* for the question q
InitParWith(st, q) ==
    /\ store = st
    /\ vectordb = IndexDocs(st)
    /\ memory_store = << >>
    /\ session_context = EmptyContext
    /\ conns = 0
    /\ pc = [t \in Threads |-> IF t = 1 THEN "connect"
                               ELSE IF t = 2 THEN "retrieve_index" ELSE "idle"]
    /\ question = [t \in Threads |-> IF t \in {1, 2} THEN q ELSE None]
    /\ ents = [t \in Threads |-> IF t \in {1, 2} THEN extract_entities(q) ELSE NoEntities]
    /\ db_facts = [t \in Threads |-> None]
    /\ docs = [t \in Threads |-> << >>]
    /\ prompt = [t \in Threads |-> None]
    /\ answer = [t \in Threads |-> None]
    /\ exc = [t \in Threads |-> << >>]
    /\ result = [t \in Threads |-> NoResult]
    /\ turns = 0
    /\ answered = << >>
    /\ pre = [t \in Threads |-> [ctx |-> EmptyContext, mem |-> << >>]]
    /\ faults = [t \in Threads |-> {}]

InitPar == \E st \in Stores : \E q \in Questions : InitParWith(st, q)

NextPar == db_connect(1) \/ db_query(1) \/ retrieve_index(2)

SpecPar == InitPar /\ [][NextPar]_vars

\* ------------------------------------------------- turns on two threads
\* update_context statement by statement, as the interpreter can interleave
\* the threads of the server between any two of them.
\* ents = extract_entities(question); the locals of hybrid_answer that are not
\* read any more are dropped here
uc_extract(t) ==
    /\ pc[t] = "update_context"
    /\ ents' = [ents EXCEPT ![t] = extract_entities(question[t])]
    /\ db_facts' = [db_facts EXCEPT ![t] = None]
    /\ docs' = [docs EXCEPT ![t] = << >>]
    /\ prompt' = [prompt EXCEPT ![t] = None]
    /\ pc' = [pc EXCEPT ![t] = "uc_float_id"]
    /\ UNCHANGED <<shared, question, answer, exc, result, turns, answered, pre, faults>>

\* for k, v in ents.items(): session_context[f"current_{k}"] = v, one
\* iteration per action, in the order the keys were inserted
uc_set_float_id(t) ==
    /\ pc[t] = "uc_float_id"
    /\ session_context' =
          IF "float_id" \in DOMAIN ents[t]
          THEN [session_context EXCEPT !.current_float_id = ents[t]["float_id"]]
          ELSE session_context
    /\ pc' = [pc EXCEPT ![t] = "uc_region"]
    /\ UNCHANGED <<store, vectordb, memory_store, conns, question, ents, db_facts,
                   docs, prompt, answer, exc, result, turns, answered, pre, faults>>

uc_set_region(t) ==
    /\ pc[t] = "uc_region"
    /\ session_context' =
          IF "region" \in DOMAIN ents[t]
          THEN [session_context EXCEPT !.current_region = ents[t]["region"]]
          ELSE session_context
    /\ pc' = [pc EXCEPT ![t] = "uc_parameter"]
    /\ UNCHANGED <<store, vectordb, memory_store, conns, question, ents, db_facts,
                   docs, prompt, answer, exc, result, turns, answered, pre, faults>>

uc_set_parameter(t) ==
    /\ pc[t] = "uc_parameter"
    /\ session_context' =
          IF "parameter" \in DOMAIN ents[t]
          THEN [session_context EXCEPT !.current_parameter = ents[t]["parameter"]]
          ELSE session_context
    /\ pc' = [pc EXCEPT ![t] = "uc_append"]
    /\ UNCHANGED <<store, vectordb, memory_store, conns, question, ents, db_facts,
                   docs, prompt, answer, exc, result, turns, answered, pre, faults>>

\* session_context["recent_queries"].append(question)
uc_append(t) ==
    /\ pc[t] = "uc_append"
    /\ session_context' = [session_context EXCEPT !.recent_queries = Append(@, question[t])]
    /\ answered' = Append(answered, question[t])
    /\ pc' = [pc EXCEPT ![t] = "uc_len"]
    /\ UNCHANGED <<store, vectordb, memory_store, conns, question, ents, db_facts,
                   docs, prompt, answer, exc, result, turns, pre, faults>>

\* if len(session_context["recent_queries"]) > 5:
uc_len(t) ==
    /\ pc[t] = "uc_len"
    /\ pc' = [pc EXCEPT ![t] = IF Len(session_context.recent_queries) > RecentLimit
                               THEN "uc_pop" ELSE "memory_add"]
    /\ UNCHANGED <<shared, question, ents, db_facts, docs, prompt, answer, exc,
                   result, turns, answered, pre, faults>>

\* session_context["recent_queries"].pop(0)
uc_pop(t) ==
    /\ pc[t] = "uc_pop"
    /\ session_context' = [session_context EXCEPT !.recent_queries = Tail(@)]
    /\ pc' = [pc EXCEPT ![t] = "memory_add"]
    /\ UNCHANGED <<store, vectordb, memory_store, conns, question, ents, db_facts,
                   docs, prompt, answer, exc, result, turns, answered, pre, faults>>

\* update_context applied to the questions qs in order, from the empty context
RECURSIVE ContextAfter(_)
ContextAfter(qs) ==
    IF qs = << >> THEN EmptyContext
    ELSE update_context(ContextAfter(SubSeq(qs, 1, Len(qs) - 1)), qs[Len(qs)])

\* the two request threads of the server
Workers == {1, 2}

\* the questions answered before the two requests came in
Histories == {<< >>, <<Q4, Q2, Q2, Q4>>, <<Q4, Q2, Q2, Q4, Q2>>}

WorkerQuestions(t) == IF t = 1 THEN {Q1, Q2} ELSE {Q3}

\* both threads have run their retrievals and are about to call ask_llm,
\* thread 1 for q1 and thread 2 for q2, after the questions hist were answered
InitThreadsWith(hist, q1, q2) ==
    LET q(t) == IF t = 1 THEN q1 ELSE q2
    IN  /\ store = StoreEmpty
        /\ vectordb = IndexDocs(StoreEmpty)
        /\ memory_store = << >>
        /\ session_context = ContextAfter(hist)
        /\ conns = 0
        /\ pc = [t \in Threads |-> IF t \in Workers THEN "ask_llm" ELSE "idle"]
        /\ question = [t \in Threads |-> IF t \in Workers THEN q(t) ELSE None]
        /\ ents = [t \in Threads |->
                     IF t \in Workers THEN extract_entities(q(t)) ELSE NoEntities]
        /\ db_facts = [t \in Threads |->
                         IF t \in Workers
                         THEN query_db_facts(StoreEmpty, extract_entities(q(t)),
                                             "none", << >>, << >>)
                         ELSE None]
        /\ docs = [t \in Threads |-> << >>]
        /\ prompt = [t \in Threads |-> None]
        /\ answer = [t \in Threads |-> None]
        /\ exc = [t \in Threads |-> << >>]
        /\ result = [t \in Threads |-> NoResult]
        /\ turns = 2
        /\ answered = hist
        /\ pre = [t \in Threads |-> [ctx |-> ContextAfter(hist), mem |-> << >>]]
        /\ faults = [t \in Threads |-> {}]

InitThreads ==
    \E hist \in Histories : \E q1 \in WorkerQuestions(1) : \E q2 \in WorkerQuestions(2) :
        InitThreadsWith(hist, q1, q2)

NextThreads ==
    \E t \in Workers :
        \/ ask_llm(t)
        \/ uc_extract(t)
        \/ uc_set_float_id(t)
        \/ uc_set_region(t)
        \/ uc_set_parameter(t)
        \/ uc_append(t)
        \/ uc_len(t)
        \/ uc_pop(t)
        \/ memory_add(t)
        \/ chat_respond(t)
        \/ chat_except(t)

SpecThreads == InitThreads /\ [][NextThreads]_vars

\* the fact resolver alone: thread 1 is about to call
\* query_db_facts(q, extract_entities(q)) on the tables st
InitFactsWith(st, q) ==
    /\ store = st
    /\ vectordb = IndexDocs(st)
    /\ memory_store = << >>
    /\ session_context = EmptyContext
    /\ conns = 0
    /\ pc = [t \in Threads |-> IF t = 1 THEN "connect" ELSE "idle"]
    /\ question = [t \in Threads |-> IF t = 1 THEN q ELSE None]
    /\ ents = [t \in Threads |-> IF t = 1 THEN extract_entities(q) ELSE NoEntities]
    /\ db_facts = [t \in Threads |-> None]
    /\ docs = [t \in Threads |-> << >>]
    /\ prompt = [t \in Threads |-> None]
    /\ answer = [t \in Threads |-> None]
    /\ exc = [t \in Threads |-> << >>]
    /\ result = [t \in Threads |-> NoResult]
    /\ turns = 0
    /\ answered = << >>
    /\ pre = [t \in Threads |-> [ctx |-> EmptyContext, mem |-> << >>]]
    /\ faults = [t \in Threads |-> {}]

InitFacts == \E st \in FactStores : \E q \in Questions : InitFactsWith(st, q)

NextFacts == db_connect(1) \/ db_query(1)

SpecFacts == InitFacts /\ [][NextFacts]_vars

TypeOK ==
    /\ conns \in 0..NThreads
    /\ turns \in 0..(MaxTurns + 1)
    /\ \A t \in Threads : pc[t] \in {"idle", "extract", "connect", "query",
            "retrieve_index", "retrieve_memory", "ask_llm", "update_context",
            "memory_add", "return", "except", "done", "exited", "crashed", "startup",
            "uc_float_id", "uc_region", "uc_parameter", "uc_append", "uc_len", "uc_pop"}

\* ---------------------------------------------------------------- properties
Last(s) == s[Len(s)]

\* the last n elements of s, in order
LastN(s, n) == IF Len(s) <= n THEN s ELSE SubSeq(s, Len(s) - n + 1, Len(s))

IsPrefix(p, s) == Len(p) <= Len(s) /\ SubSeq(s, 1, Len(p)) = p

StoreFaults == {"db_connect", "db_count", "db_exists", "db_cycle", "db_region", "db_format"}

\* C1: a turn whose model call failed leaves the session context and the
\* conversational memory exactly as they were when the request came in.
C1_FailedTurnCommitsNothing ==
    \A t \in Threads :
        "llm" \in faults[t] =>
            /\ session_context = pre[t].ctx
            /\ memory_store = pre[t].mem

C1_Witness ==
    \E t \in Threads :
        /\ "llm" \in faults[t]
        /\ pc[t] = "done"
        /\ pre[t].ctx.recent_queries # << >>
        /\ pre[t].mem # << >>

\* C2: recent_queries never holds more than 5 entries, whatever the number of
\* update_context calls.
C2_RecentQueriesBounded == Len(session_context.recent_queries) <= 5

C2_Witness ==
    /\ Len(answered) > 5
    /\ Len(session_context.recent_queries) = 5

\* C3: recent_queries is the last min(n, 5) questions update_context was called
\* with, in arrival order: each call appends at the tail and evicts the head.
C3_RecentQueriesFifo == session_context.recent_queries = LastN(answered, 5)

C3_Witness ==
    /\ Len(answered) > 5
    /\ answered[1] \notin Range(session_context.recent_queries)
    /\ Last(session_context.recent_queries) = Last(answered)

\* C4: an update_context call leaves every current_* field whose entity the
\* question does not yield unchanged, and never turns a set field back to None.
C4_UnmatchedFieldsKept ==
    [][answered' # answered =>
        LET entities == extract_entities(Last(answered'))
        IN  \A k \in EntityKeys :
              /\ k \notin DOMAIN entities =>
                    session_context'[CurrentKey(k)] = session_context[CurrentKey(k)]
              /\ session_context[CurrentKey(k)] # None =>
                    session_context'[CurrentKey(k)] # None]_vars

C4_Witness ==
    /\ answered # << >>
    /\ \E k \in EntityKeys :
          /\ k \notin DOMAIN extract_entities(Last(answered))
          /\ session_context[CurrentKey(k)] # None

\* C5: when the context holds a float id the question does not mention, the
\* prompt sent to the model for that question contains the id.
C5_ContextFloatInPrompt ==
    \A t \in Threads :
        (/\ pc[t] \in {"update_context", "except"}
         /\ prompt[t] # None
         /\ session_context.current_float_id # None
         /\ ~Contains(session_context.current_float_id, question[t]))
        => Contains(session_context.current_float_id, prompt[t])

\* C6: a failed model call gives hybrid_answer no text to return, reaches the
\* caller as an exception, and /chat reports it as a result with an 'error'
\* field and no 'response' field.
C6_ModelFailureIsError ==
    \A t \in Threads :
        "llm" \in faults[t] =>
            /\ answer[t] = None
            /\ pc[t] \in {"except", "done"}
            /\ exc[t] = LLMException
            /\ pc[t] = "done" =>
                  /\ "error" \in DOMAIN result[t].body
                  /\ "response" \notin DOMAIN result[t].body
                  /\ result[t].status_code # 200

C6_Witness ==
    \E t \in Threads : "llm" \in faults[t] /\ pc[t] = "done"

\* C7: a failing index or memory lookup is not propagated; the failing source
\* adds no document, the model is still called, and a turn whose model call
\* succeeds ends with the answer and the usual commits.
C7_RetrievalFailsSoft ==
    \A t \in Threads :
        faults[t] \cap {"index", "memory_search"} # {} =>
            /\ exc[t] # << >> => "llm" \in faults[t]
            /\ pc[t] \notin {"idle", "extract", "connect", "query", "retrieve_index"}
            /\ "index" \in faults[t] =>
                  \A i \in 1..Len(docs[t]) : docs[t][i] \in Range(memory_store)
            /\ "memory_search" \in faults[t] =>
                  \A i \in 1..Len(docs[t]) : docs[t][i] \in Range(vectordb)
            /\ (pc[t] = "done" /\ "llm" \notin faults[t]) =>
                  /\ result[t] = SuccessResult(answer[t])
                  /\ session_context = update_context(pre[t].ctx, question[t])
                  /\ "memory_add" \notin faults[t] =>
                        memory_store = Append(pre[t].mem,
                                              MemoryEntry(answer[t], question[t]))

C7_Witness ==
    \E t \in Threads :
        /\ {"index", "memory_search"} \subseteq faults[t]
        /\ pc[t] = "done"
        /\ result[t].status_code = 200
        /\ Len(memory_store) = Len(pre[t].mem) + 1

\* C8: when the memory append raises, hybrid_answer still returns the answer,
\* the context update of the turn is kept and the memory is unchanged.
C8_AppendFailsSoft ==
    \A t \in Threads :
        "memory_add" \in faults[t] =>
            /\ pc[t] \in {"return", "done"}
            /\ exc[t] = << >>
            /\ answer[t] # None
            /\ session_context = update_context(pre[t].ctx, question[t])
            /\ memory_store = pre[t].mem
            /\ pc[t] = "done" => result[t] = SuccessResult(answer[t])

C8_Witness ==
    \E t \in Threads :
        /\ "memory_add" \in faults[t]
        /\ pc[t] = "done"
        /\ session_context # pre[t].ctx

\* C9: every store error during fact resolution, the failure to open the
\* connection included, is caught and becomes a fact sentence; it raises
\* nothing to hybrid_answer.
C9_StoreErrorNeverAborts ==
    \A t \in Threads :
        (faults[t] \cap StoreFaults # {} /\ "llm" \notin faults[t]) =>
            /\ exc[t] = << >>
            /\ pc[t] # "except"

\* C10: the facts always contain the total-float-count sentence with the
\* number of distinct platform numbers of the floats table.
C10_CountAlwaysPresent ==
    \A t \in Threads :
        db_facts[t] # None =>
            Contains(CountFact(Cardinality(Range(store.floats))), db_facts[t])

\* C10 as amended: the facts start with that sentence whenever the count query
\* itself did not fail; when it failed they are the error sentence alone.
C10_CountPresentUnlessCountFails ==
    \A t \in Threads :
        db_facts[t] # None =>
            IF "db_count" \in faults[t]
            THEN db_facts[t] = ErrorFact(DbException)
            ELSE IsPrefix(CountFact(Cardinality(Range(store.floats))), db_facts[t])

C10_Witness ==
    \E t \in Threads :
        /\ db_facts[t] # None
        /\ "db_count" \notin faults[t]
        /\ faults[t] \cap StoreFaults # {}
        /\ Cardinality(Range(store.floats)) < Len(store.floats)

\* ------------------------------------------------ fact resolver, C11..C13
\* what a facts text says about float fid
SaysExists(facts, fid) == Contains(ExistsFact(fid), facts)

SaysNotFound(facts, fid) == Contains(NotFoundFact(fid), facts)

SaysLastCycle(facts) == Contains(<<"Last cycle ">>, facts)

SaysNoCycle(facts, fid) == Contains(NoCycleFact(fid), facts)

\* C11 as stated: for every question with a 7-digit token, the facts hold the
\* "exists" sentence when a float with that id is in the floats table and the
\* "not found" sentence naming the id when none is, and never both or neither.
C11_ExactlyOneFloatSentence ==
    \A t \in Threads :
        (db_facts[t] # None /\ "float_id" \in DOMAIN ents[t]) =>
            LET fid == ents[t]["float_id"]
            IN  /\ SaysExists(db_facts[t], fid) <=> fid \in Range(store.floats)
                /\ SaysNotFound(db_facts[t], fid) <=> fid \notin Range(store.floats)

\* C11 amended: the same, for every call in which neither the count query nor
\* the existence query raised.
C11_ExactlyOneFloatSentenceUnlessQueryFails ==
    \A t \in Threads :
        (/\ db_facts[t] # None
         /\ "float_id" \in DOMAIN ents[t]
         /\ faults[t] \cap {"db_count", "db_exists"} = {}) =>
            LET fid == ents[t]["float_id"]
            IN  /\ SaysExists(db_facts[t], fid) <=> fid \in Range(store.floats)
                /\ SaysNotFound(db_facts[t], fid) <=> fid \notin Range(store.floats)

\* a call for a 7-digit token that names no float, answered "not found"
C11_Witness ==
    \E t \in Threads :
        /\ db_facts[t] # None
        /\ "float_id" \in DOMAIN ents[t]
        /\ faults[t] = {}
        /\ store.floats # << >>
        /\ ents[t]["float_id"] \notin Range(store.floats)
        /\ SaysNotFound(db_facts[t], ents[t]["float_id"])
        /\ ~SaysExists(db_facts[t], ents[t]["float_id"])

\* C12: when the float of the question exists, the facts hold exactly one of
\* the last-cycle sentence, for the highest cycle number of that float, and
\* the "No cycle records" sentence, the latter exactly when the float has no
\* cycle row; when the float is not found they hold neither.  Stated for the
\* calls in which no query of the float block raised.
C12_OneCycleSentence ==
    \A t \in Threads :
        (/\ db_facts[t] # None
         /\ "float_id" \in DOMAIN ents[t]
         /\ faults[t] \cap {"db_count", "db_exists", "db_cycle"} = {}) =>
            LET fid == ents[t]["float_id"]
                rows == {i \in 1..Len(store.cycles) :
                            store.cycles[i].platform_number = fid}
                top == {store.cycles[i].cycle_number : i \in
                            {i \in rows : \A j \in rows :
                                store.cycles[j].cycle_number
                                    <= store.cycles[i].cycle_number}}
            IN  IF fid \in Range(store.floats)
                THEN /\ SaysLastCycle(db_facts[t]) # SaysNoCycle(db_facts[t], fid)
                     /\ SaysNoCycle(db_facts[t], fid) <=> rows = {}
                     /\ SaysLastCycle(db_facts[t]) =>
                            \E n \in top :
                                Contains(<<"Last cycle ", ToString(n), " at ">>,
                                         db_facts[t])
                ELSE /\ ~SaysLastCycle(db_facts[t])
                     /\ ~SaysNoCycle(db_facts[t], fid)

\* C13: the region sentence of the facts, from its first word to the end
RegionPart(facts) ==
    LET at == {i \in 1..Len(facts) : facts[i] = "Sample floats in Arabian Sea: "}
    IN  IF at = {} THEN << >> ELSE SubSeq(facts, Min(at), Len(facts))

\* floats with at least one cycle inside 5..25 N, 45..78 E, borders included
InArabianBox(st) ==
    {st.cycles[i].platform_number : i \in
        {i \in 1..Len(st.cycles) :
            /\ st.cycles[i].latitude \in 5..25
            /\ st.cycles[i].longitude \in 45..78}}

\* C13: for the region "arabian" the region sentence lists at most 5 float
\* ids, no id twice, and every listed id is a float with at least one cycle
\* at latitude 5..25 and longitude 45..78, both borders included.
C13_RegionSample ==
    \A t \in Threads :
        (db_facts[t] # None /\ RegionPart(db_facts[t]) # << >>) =>
            LET part == RegionPart(db_facts[t])
                listed == {p \in Range(store.floats) : Contains(p, part)}
                n == Cardinality({i \in 1..Len(part) : part[i] = ", "}) + 1
            IN  /\ "region" \in DOMAIN ents[t] /\ ents[t]["region"] = arabian
                /\ n <= 5
                /\ Len(part) = 1 + (n * 7) + (n - 1) + 1
                /\ Cardinality(listed) = n
                /\ listed \subseteq InArabianBox(store)
                /\ listed \subseteq Range(store.floats)

\* five ids listed while six floats are in the box, one of them on a corner
C13_Witness ==
    \E t \in Threads :
        /\ db_facts[t] # None
        /\ Cardinality(InArabianBox(store)) > 5
        /\ Cardinality({i \in 1..Len(RegionPart(db_facts[t])) :
                            RegionPart(db_facts[t])[i] = ", "}) = 4
        /\ Contains(FloatNo("2"), RegionPart(db_facts[t]))

\* ----------------------------------------------------------- prompt, C14
\* a memory entry carries the question it answered; an index entry a cycle row
IsMemoryDoc(d) == "question" \in DOMAIN d.metadata

IsIndexDoc(d) == ~IsMemoryDoc(d)

PageContents(ds) == [i \in 1..Len(ds) |-> ds[i].page_content]

\* the prompt laid out as: system instruction, facts, the documents ds, question
PromptLayout(t, ds) ==
    <<"System: ", system_template, "\nHuman: ", "=== DATABASE FACTS ===\n">>
        \o db_facts[t]
        \o <<"\n\n=== RETRIEVED DOCS ===\n">>
        \o (IF ds = << >> THEN <<"No retrieved docs.">>
            ELSE JoinLines(PageContents(ds)))
        \o <<"\n\nQuestion: ">>
        \o question[t]

\* C14 as stated: the prompt is the system instruction, the facts, the
\* retrieved documents and the question, in this order, and among the
\* documents the memory hits come first, before the index hits.
C14_PromptOrderMemoryFirst ==
    \A t \in Threads :
        prompt[t] # None =>
            prompt[t] = PromptLayout(t, SelectSeq(docs[t], IsMemoryDoc)
                                            \o SelectSeq(docs[t], IsIndexDoc))

\* C14 amended: the same four parts in the same order, and among the
\* documents the index hits come first, before the memory hits; each group
\* is one answer of its search, at most 5 index entries and 2 memory entries.
C14_PromptOrderIndexFirst ==
    \A t \in Threads :
        prompt[t] # None =>
            /\ prompt[t] = PromptLayout(t, SelectSeq(docs[t], IsIndexDoc)
                                               \o SelectSeq(docs[t], IsMemoryDoc))
            /\ SelectSeq(docs[t], IsIndexDoc) \in TopK(vectordb, 5) \cup {<< >>}
            /\ SelectSeq(docs[t], IsMemoryDoc) \in TopK(memory_store, 2) \cup {<< >>}

\* a prompt with facts, index hits and memory hits
C14_Witness ==
    \E t \in Threads :
        /\ prompt[t] # None
        /\ db_facts[t] # << >>
        /\ SelectSeq(docs[t], IsIndexDoc) # << >>
        /\ SelectSeq(docs[t], IsMemoryDoc) # << >>

\* ------------------------------------------------- memory, C15 and C16
\* C15: a turn that produced an answer has called the memory append once, with
\* the answer as the indexed text and the turn's question as metadata: the
\* memory is the memory at the start of the turn plus that one entry, or, when
\* the append failed, the memory at the start of the turn; a turn that
\* produced no answer has not called the append and leaves the memory as it was.
C15_OneAppendPerAnswer ==
    \A t \in Threads :
        pc[t] = "done" =>
            IF answer[t] # None
            THEN \/ /\ "memory_add" \notin faults[t]
                    /\ memory_store =
                         Append(pre[t].mem,
                                [page_content |-> answer[t],
                                 metadata |-> [question |-> question[t]]])
                 \/ /\ "memory_add" \in faults[t]
                    /\ memory_store = pre[t].mem
            ELSE /\ "memory_add" \notin faults[t]
                 /\ memory_store = pre[t].mem

\* an answered turn whose entry was stored, the answer differing from the question
C15_Witness ==
    \E t \in Threads :
        /\ pc[t] = "done"
        /\ answer[t] # None
        /\ answer[t] # question[t]
        /\ memory_store # << >>
        /\ Last(memory_store).page_content = answer[t]
        /\ Len(memory_store) = Len(pre[t].mem) + 1

\* C16: the conversational memory is append-only: every step leaves the
\* entries already stored in place and in order, and only adds at the end.
C16_MemoryAppendOnly == [][IsPrefix(memory_store, memory_store')]_vars

\* an entry appended behind the entries found on disk
C16_Witness ==
    \E t \in Threads :
        /\ pre[t].mem # << >>
        /\ Len(memory_store) > Len(pre[t].mem)

\* ------------------------------------------------------- frame of a turn, C20
\* C20: no step of a turn, succeeding or failing, changes the tables or the
\* semantic index, and the extract_entities step changes no shared state.
C20_TurnLeavesStoreAndIndex ==
    [][/\ store' = store
       /\ vectordb' = vectordb
       /\ \A t \in Threads :
            (pc[t] = "extract" /\ pc'[t] # "extract") => shared' = shared]_vars

\* one turn answered and one turn failed, over tables and an index with content
C20_Witness ==
    \E t \in Threads :
        /\ pc[t] = "done"
        /\ turns = 2
        /\ answered # << >>
        /\ "llm" \in faults[t]
        /\ store.cycles # << >>
        /\ vectordb # << >>
        /\ session_context # EmptyContext

\* ------------------------------------------------------ input errors, C17
\* C17: while the question of a turn is empty or missing, the turn is not
\* inside the pipeline (no extraction, facts, retrieval or model call), and
\* the session context and the memory are as they were before the input.
C17_EmptyQuestionRejected ==
    \A t \in Threads :
        (pc[t] # "idle" /\ (question[t] = None \/ question[t] = << >>)) =>
            /\ pc[t] \in {"done", "exited", "crashed"}
                            \cup (IF question[t] = None THEN {"except"} ELSE {})
            /\ session_context = pre[t].ctx
            /\ memory_store = pre[t].mem

\* ------------------------------------------------- concurrency, C18 and C19
\* what query_db_facts can return for question q on the tables st
SequentialFacts(st, q) ==
    {query_db_facts(st, extract_entities(q), fault, loc, res) :
        fault \in DbFaults,
        loc \in (IF "float_id" \in DOMAIN extract_entities(q)
                 THEN LastCycleChoices(st, extract_entities(q)["float_id"])
                 ELSE {<< >>}),
        res \in RegionChoices(st)}

\* C18: with the fact resolver and the index search running side by side for
\* one question, under every interleaving each returns what it can return
\* when called alone on the same tables and index, and a step of one changes
\* neither the tables, the index nor anything the other holds.
C18_ReadsDoNotInterfere ==
    /\ [](/\ pc[1] = "retrieve_index" =>
                db_facts[1] \in SequentialFacts(store, question[1])
          /\ pc[2] = "retrieve_memory" =>
                docs[2] \in TopK(IndexDocs(store), 5) \cup {<< >>})
    /\ [][/\ store' = store
          /\ vectordb' = vectordb
          /\ \A t \in Threads :
                pc'[t] = pc[t] =>
                    /\ db_facts'[t] = db_facts[t]
                    /\ docs'[t] = docs[t]
                    /\ ents'[t] = ents[t]
                    /\ question'[t] = question[t]
                    /\ exc'[t] = exc[t]]_vars

\* the index search has returned hits while the fact resolver holds its
\* connection, and the fact resolver has yet to run its queries
C18_Witness ==
    /\ pc[1] = "query"
    /\ conns = 1
    /\ pc[2] = "retrieve_memory"
    /\ docs[2] # << >>
    /\ "float_id" \in DOMAIN ents[1]

\* update_context applied to the questions qs in order, from the empty context
RECURSIVE FoldContext(_)
FoldContext(qs) ==
    IF qs = << >> THEN EmptyContext
    ELSE update_context(FoldContext(SubSeq(qs, 1, Len(qs) - 1)), qs[Len(qs)])

\* C19: there is one session context for all conversations: it is always the
\* result of the answered questions of every conversation, in the order they
\* were answered, whichever conversation asked them.
C19_OneContextForAll == session_context = FoldContext(answered)

\* conversation 1 has just been answered for "What about it?" and the context
\* it leaves holds the float id and the question of conversation 2
C19_Witness ==
    /\ pc[1] = "done"
    /\ answered # << >>
    /\ Last(answered) = Q2
    /\ question[1] = Q2
    /\ session_context.current_float_id = F2
    /\ \E i \in 1..Len(session_context.recent_queries) :
            session_context.recent_queries[i] = Q3

\* ------------------------------------------------ context carry-over, C21
\* the entity of kind k of the most recent question of qs that has one
RECURSIVE LastMatch(_, _)
LastMatch(qs, k) ==
    IF qs = << >> THEN None
    ELSE LET e == extract_entities(qs[Len(qs)])
         IN  IF k \in DOMAIN e THEN e[k]
             ELSE LastMatch(SubSeq(qs, 1, Len(qs) - 1), k)

\* C21: between turns, current_float_id, current_region and current_parameter
\* each hold the entity of the most recent answered question that had an
\* entity of that kind, and None when no answered question had one; the
\* questions of failed turns are not among the answered ones.
C21_CurrentIsLastAnsweredMatch ==
    (\A t \in Threads : pc[t] \in {"idle", "done"}) =>
        /\ session_context.current_float_id = LastMatch(answered, "float_id")
        /\ session_context.current_region = LastMatch(answered, "region")
        /\ session_context.current_parameter = LastMatch(answered, "parameter")

\* an answered question set the float and the region, then a turn that asked
\* for another float failed: the fields still hold the answered question's
C21_Witness ==
    \E t \in Threads :
        /\ pc[t] = "done"
        /\ "llm" \in faults[t]
        /\ question[t] = Q1
        /\ answered = <<Q3>>
        /\ session_context.current_float_id = F2
        /\ session_context.current_region = arabian

\* ----------------------------------------------------- order of a turn, C22
\* the place of a step in hybrid_answer and chat()
StepRank(p) ==
    CASE p = "idle" -> 0
      [] p = "extract" -> 1
      [] p = "connect" -> 2
      [] p = "query" -> 3
      [] p = "retrieve_index" -> 4
      [] p = "retrieve_memory" -> 5
      [] p = "ask_llm" -> 6
      [] p = "update_context" -> 7
      [] p = "memory_add" -> 8
      [] p = "return" -> 9
      [] p = "except" -> 9
      [] OTHER -> 10

\* C22: every step of a turn moves it forward in the order extract, facts,
\* retrieval, compose and generate, context commit, memory commit, so no step
\* runs twice; the prompt is composed and the model called in one step only;
\* the memory is appended to only after the context holds the turn's
\* question; and every turn that has started reaches its response.
C22_StepsOnceInOrderAndTerminate ==
    /\ [][/\ \E t \in Threads :
                /\ StepRank(pc'[t]) > StepRank(pc[t])
                /\ \A u \in Threads \ {t} : pc'[u] = pc[u]
          /\ \A t \in Threads :
                /\ prompt'[t] # prompt[t] /\ prompt'[t] # None => pc[t] = "ask_llm"
                /\ answer'[t] # answer[t] => pc[t] = "ask_llm"
          /\ session_context' # session_context =>
                \E t \in Threads : pc[t] = "update_context"
          /\ memory_store' # memory_store =>
                \E t \in Threads :
                    /\ pc[t] = "memory_add"
                    /\ answered # << >>
                    /\ Last(answered) = question[t]
                    /\ Last(session_context.recent_queries) = question[t]]_vars
    /\ \A t \in Threads : (pc[t] = "extract") ~> (pc[t] = "done")

\* a turn that went through every step: answered, context and memory committed
C22_Witness ==
    \E t \in Threads :
        /\ pc[t] = "done"
        /\ faults[t] = {}
        /\ answer[t] # None
        /\ session_context.recent_queries = <<question[t]>>
        /\ Len(memory_store) = Len(pre[t].mem) + 1
        /\ result[t].status_code = 200

\* ------------------------------------------------------- connections, C23
\* C23: the connections open are exactly those of the threads inside the try
\* block of query_db_facts: once query_db_facts has returned, on the normal
\* path or after a database error, its connection is closed, and none is
\* open between turns.
C23_ConnectionsClosed ==
    conns = Cardinality({t \in Threads : pc[t] = "query"})

\* query_db_facts has returned after a database error and no connection is open
C23_Witness ==
    \E t \in Threads :
        /\ pc[t] = "retrieve_index"
        /\ faults[t] \cap {"db_count", "db_exists", "db_cycle", "db_region", "db_format"} # {}
        /\ Contains(<<"DATABASE ERROR: ">>, db_facts[t])
        /\ conns = 0

\* -------------------------------------------------- extractor, C24 and C25
\* kw occurs in the text when case is ignored
Occurs(kw, text) ==
    \E i \in 1..Len(text) :
        /\ i + Len(kw) - 1 <= Len(text)
        /\ Lower(SubSeq(text, i, i + Len(kw) - 1)) = kw

\* key holds the first keyword of the list that occurs in the text, whatever
\* its place in the text, and is absent exactly when none occurs
FirstInListOrder(e, key, keywords, text) ==
    /\ key \in DOMAIN e <=> \E i \in 1..Len(keywords) : Occurs(keywords[i], text)
    /\ \A i \in 1..Len(keywords) :
          (key \in DOMAIN e /\ e[key] = keywords[i]) <=>
              /\ Occurs(keywords[i], text)
              /\ \A j \in 1..(i - 1) : ~Occurs(keywords[j], text)

\* C24: region and parameter are picked by keyword-list order, not by place in
\* the text, case ignored, as substrings; a key is absent exactly when no
\* keyword of its list occurs; a text with no keyword and no digit gives the
\* empty mapping.
C24_KeywordListOrder ==
    \A t \in Threads :
        pc[t] = "connect" =>
            /\ FirstInListOrder(ents[t], "region", region_keywords, question[t])
            /\ FirstInListOrder(ents[t], "parameter", param_keywords, question[t])
            /\ DOMAIN ents[t] \subseteq {"float_id", "region", "parameter"}
            /\ (/\ \A i \in 1..Len(region_keywords) :
                        ~Occurs(region_keywords[i], question[t])
                /\ \A i \in 1..Len(param_keywords) :
                        ~Occurs(param_keywords[i], question[t])
                /\ \A i \in 1..Len(question[t]) : ~IsDigit(question[t][i]))
                    => ents[t] = NoEntities

\* "Arabian ARCTIC": arabian stands first in the text, arctic first in the list
C24_Witness ==
    \E t \in Threads :
        /\ pc[t] = "connect"
        /\ question[t] = <<"A", "r", "a", "b", "i", "a", "n", " ",
                            "A", "R", "C", "T", "I", "C">>
        /\ ents[t]["region"] = <<"a", "r", "c", "t", "i", "c">>

\* the maximal runs of word characters of the text that are exactly 7 digits
SevenDigitTokens(text) ==
    {i \in 1..(Len(text) - 6) :
        /\ \A k \in i..(i + 6) : IsDigit(text[k])
        /\ i = 1 \/ ~IsWord(text[i - 1])
        /\ i + 6 = Len(text) \/ ~IsWord(text[i + 7])}

\* C25: float_id is the left-most token of exactly 7 digits delimited by word
\* boundaries; without such a token (shorter or longer digit runs, 7 digits
\* attached to a letter, a digit or an underscore) there is no float_id.
C25_FirstSevenDigitToken ==
    \A t \in Threads :
        pc[t] = "connect" =>
            IF SevenDigitTokens(question[t]) = {}
            THEN "float_id" \notin DOMAIN ents[t]
            ELSE /\ "float_id" \in DOMAIN ents[t]
                 /\ \E i \in SevenDigitTokens(question[t]) :
                        /\ \A j \in SevenDigitTokens(question[t]) : i <= j
                        /\ ents[t]["float_id"] = SubSeq(question[t], i, i + 6)

\* an 8-digit run, then a 7-digit token: the run is passed over
C25_Witness ==
    \E t \in Threads :
        /\ pc[t] = "connect"
        /\ question[t] = <<"1", "2", "3", "4", "5", "6", "7", "8", " ">> \o F2
        /\ ents[t]["float_id"] = F2

\* ------------------------------------------------- database errors, C26
\* C26: when a statement of the try block raised, the facts hold exactly one
\* DATABASE ERROR sentence and it is the last line; the sentences of the
\* statements before the failing one are all there (the count sentence unless
\* the count query failed, the float sentences unless the count query or a
\* float query failed first), and nothing of a later check is: no float
\* sentence after a failed count, no cycle sentence after a failed float
\* query, never a region sentence.
C26_ErrorKeepsEarlierFacts ==
    \A t \in Threads :
        (db_facts[t] # None /\ faults[t] \cap StoreFaults # {}) =>
            LET f == db_facts[t]
                errs == {i \in 1..Len(f) : f[i] = "DATABASE ERROR: "}
                e == Min(errs)
                lines == Cardinality({i \in 1..Len(f) : f[i] = "\n"}) + 1
                withFloat == "float_id" \in DOMAIN ents[t]
                fid == ents[t]["float_id"]
                known == fid \in Range(store.floats)
            IN  /\ Cardinality(errs) = 1
                /\ \A i \in e..Len(f) : f[i] # "\n"
                /\ e = 1 \/ f[e - 1] = "\n"
                /\ RegionPart(f) = << >>
                /\ "db_count" \in faults[t] => e = 1
                /\ "db_count" \notin faults[t] => f[1] = "Database contains "
                /\ "db_exists" \in faults[t] =>
                        /\ lines = 2
                        /\ ~SaysExists(f, fid) /\ ~SaysNotFound(f, fid)
                /\ faults[t] \cap {"db_cycle", "db_format"} # {} =>
                        /\ lines = 3
                        /\ SaysExists(f, fid)
                        /\ ~SaysLastCycle(f) /\ ~SaysNoCycle(f, fid)
                /\ "db_region" \in faults[t] =>
                        /\ lines = IF ~withFloat THEN 2 ELSE IF known THEN 4 ELSE 3
                        /\ withFloat => /\ SaysExists(f, fid) <=> known
                                        /\ SaysNotFound(f, fid) <=> ~known
                                        /\ known => SaysLastCycle(f) # SaysNoCycle(f, fid)

\* the region query failed after the count, the "exists" and the "No cycle
\* records" sentences had been emitted
C26_Witness ==
    \E t \in Threads :
        /\ db_facts[t] # None
        /\ "db_region" \in faults[t]
        /\ "float_id" \in DOMAIN ents[t]
        /\ SaysExists(db_facts[t], ents[t]["float_id"])
        /\ SaysNoCycle(db_facts[t], ents[t]["float_id"])
        /\ Contains(<<"DATABASE ERROR: ">>, db_facts[t])

\* the pc values at which a thread is inside update_context
InUpdateContext == {"uc_float_id", "uc_region", "uc_parameter", "uc_append", "uc_len", "uc_pop"}

\* C27: with turns interleaving on the threads of the server, whenever no
\* update_context call is in progress recent_queries holds at most 5 entries,
\* every one of them is the question of a turn that reached its append, and
\* none is lost or duplicated beyond the evictions: the list is the last 5
\* (or fewer) questions appended, in the order of their appends.
C27_RecentQueriesUnderThreads ==
    (\A t \in Threads : pc[t] \notin InUpdateContext)
        => /\ Len(session_context.recent_queries) <= RecentLimit
           /\ Range(session_context.recent_queries) \subseteq Range(answered)
           /\ session_context.recent_queries = LastN(answered, RecentLimit)

\* C28: with turns interleaving on the threads of the server, every entry of
\* the conversational memory pairs the answer and the question of one and the
\* same request, and each request that stored its exchange (no step of it
\* failed) has exactly one entry.
Stored(t) == pc[t] \in {"return", "done"} /\ faults[t] = {}

C28_MemoryPairsSameTurn ==
    /\ \A i \in 1..Len(memory_store) :
          \E t \in Workers :
              /\ Stored(t)
              /\ memory_store[i].page_content = answer[t]
              /\ memory_store[i].metadata.question = question[t]
    /\ Len(memory_store) = Cardinality({t \in Workers : Stored(t)})

\* both requests stored their exchange, the second thread's first, while the
\* two answers differ and thread 2 was answered before thread 1
C28_Witness ==
    /\ \A t \in Workers : pc[t] = "done" /\ Stored(t)
    /\ Len(memory_store) = 2
    /\ answer[1] # answer[2]
    /\ memory_store[1].metadata.question = question[2]
    /\ memory_store[1].page_content = answer[2]
    /\ memory_store[2].page_content = answer[1]
    /\ answered = <<question[1], question[2]>>

\* C29: startup always completes without error and leaves a usable semantic
\* index: the import never ends in an exception, and once requests are served
\* the index holds the summaries of the cycle table (loaded, or built from it).
C29_StartupReachesReady ==
    /\ \A t \in Threads : pc[t] # "crashed"
    /\ \A t \in Threads : pc[t] \notin {"startup", "crashed"} => vectordb = IndexDocs(store)


====
